---- MODULE Spec2Model ----
(***************************************************************************)
(* Streaming coordination between the background coordinator               *)
(* (background.ts: runRewrite, runtime.onMessage, contextMenus.onClicked), *)
(* the AIService singleton (ai.service.ts: rewriteText, rewriteWithGemini,  *)
(* cancelStream) and the per-tab page agent (content.ts: ContentScript).   *)
(*                                                                         *)
(* Strings are sequences of characters, so that concatenation (+=) and     *)
(* trim() are computed, not assumed.  Messages travel in FIFO queues, one  *)
(* per tab and direction.  Every runRewrite invocation gets a session      *)
(* number; the number is history only (the code has no session id) and is  *)
(* carried on messages so that properties can tell sessions apart.         *)
(***************************************************************************)
EXTENDS Integers, Sequences, FiniteSets, TLC

\* ---------------------------------------------------------------- bounds
MaxSessions == 2    \* runRewrite invocations in one behaviour
MaxTokens   == 2    \* tokens one provider stream hands to onToken
MaxTextLen  == 1    \* length of a selected text
MaxInFlight == 2    \* coordinator->tab messages a tab has not yet received
MaxCancels  == 2    \* STREAM_CANCEL messages the agent of a tab sends
MaxFrames   == 2    \* frame callbacks of the token flush waiting to run
MaxBurst    == 3    \* selection events handled before their frame callback runs
MaxCalls    == 2    \* fetchAndPopulateModels invocations in progress at once
MaxTime     == 1    \* clock of the popup, in units of modelCacheTtlMs

Tabs      == {1, 2}
ActiveTabs == {1}    \* tabs whose user acts in Spec
Chars     == {" ", "x"}
Providers == {"openrouter", "gemini"}

Sessions == 1..MaxSessions
NoSession == 0

\* ----------------------------------------------------------- text helpers
RECURSIVE SeqsUpTo(_, _)
SeqsUpTo(S, n) ==
  IF n = 0 THEN {<<>>}
  ELSE LET shorter == SeqsUpTo(S, n - 1)
       IN  shorter \cup {Append(s, c) : s \in {x \in shorter : Len(x) = n - 1}, c \in S}

Texts == SeqsUpTo(Chars, MaxTextLen)

\* the k-th chunk of a provider stream carries the k-th letter; the last
\* chunk may carry no text
Letters == <<"a", "b", "c", "d">>
TokenValues(k) == {<<Letters[k]>>} \cup (IF k = MaxTokens THEN {<<>>} ELSE {})

RECURSIVE TrimLeft(_)
TrimLeft(s) == IF s # <<>> /\ Head(s) = " " THEN TrimLeft(Tail(s)) ELSE s

RECURSIVE TrimRight(_)
TrimRight(s) ==
  IF s # <<>> /\ s[Len(s)] = " " THEN TrimRight(SubSeq(s, 1, Len(s) - 1)) ELSE s

\* String.prototype.trim
Trim(s) == TrimRight(TrimLeft(s))

\* a || b on strings: the first operand unless it is the empty string
OrElse(a, b) == IF a # <<>> THEN a ELSE b

VARIABLES
  activeStreams,   \* background: Map<tabId, {cancelled}>
  abortController, \* AIService.abortController: owner session or NoSession (null)
  aborted,         \* signal.aborted of the controller created for a session
  run,             \* the runRewrite invocations
  nextSession,     \* next session number to hand out
  menu,            \* contextMenus.onClicked handler in progress, per tab
  toTab,           \* chrome.tabs.sendMessage queues, per tab
  toBg,            \* chrome.runtime.sendMessage queues, per tab
  agent,           \* ContentScript instance of each tab
  page,            \* the tab's document: current selection
  popup,           \* the popup: model cache in storage, model list, calls
  hist             \* history: what each session emitted and sent

vars == <<activeStreams, abortController, aborted, run, nextSession, menu,
          toTab, toBg, agent, page, popup, hist>>

\* ------------------------------------------------------------- messages
\* coordinator -> tab.  token carries payload.token of STREAM_TOKEN,
\* payload.error of STREAM_ERROR / SHOW_ERROR and payload.text of REWRITE_TEXT.  sess and stale are history: the runRewrite
\* that sent the message (NoSession for a handler) and whether a STREAM_CANCEL
\* had been processed for that run when it sent it.
TabMsg(type, token, sess, stale) ==
  [type |-> type, token |-> token, sess |-> sess, stale |-> stale]
\* tab -> coordinator
BgMsg(type, text) == [type |-> type, text |-> text]

\* ============================================================ page agent
\* ContentScript fields after the constructor has run.
\* rafPending is the set of requestAnimationFrame callbacks for
\* flushPendingTokens that are scheduled; streamFlushRaf is the handle the
\* object remembers (0 = null).
AgentInit ==
  [ isStreaming              |-> FALSE,
    streamContent            |-> <<>>,
    pendingTokens            |-> <<>>,
    rewrittenText            |-> <<>>,
    contentText              |-> <<>>,   \* text shown in suggestionContent
    cursorShown              |-> FALSE,
    cardVisible              |-> FALSE,  \* overlay and card, always set together
    stopVisible              |-> FALSE,
    stopDisabled             |-> FALSE,
    copyDisabled             |-> FALSE,
    closeDisabled            |-> FALSE,
    streamFlushRaf           |-> 0,
    rafPending               |-> {},
    streamTextNode           |-> "null",
    toast                    |-> "none",
    clipboard                |-> <<>>,   \* text last written by copyToClipboard
    selectionUpdateRaf       |-> 0,
    selectionButtonStyle     |-> [top |-> 0, left |-> 0],
    selectionRafPending      |-> {},
    selectionButtonVisible   |-> FALSE,
    selectionText            |-> <<>>,
    pendingSelectionText     |-> <<>>,
    lastSelectionText        |-> <<>>,
    isSelectionButtonPressed |-> FALSE ]

\* the document of a tab: window.getSelection().toString() and the selected
\* substring of a focused input/textarea (empty when there is none)
PageInit == [docSel |-> <<>>, fieldSel |-> <<>>]

\* requestAnimationFrame returns a handle no scheduled callback uses
FreshRaf(a) ==
  CHOOSE i \in 1..(Cardinality(a.rafPending) + 2) :
    /\ i \notin a.rafPending
    /\ i # a.streamFlushRaf
    /\ \A j \in 1..(i - 1) : j \in a.rafPending \/ j = a.streamFlushRaf

\* getSelectedText (isContentEditable branch repeats the first read)
getSelectedText(p) ==
  IF Trim(p.docSel) # <<>> THEN Trim(p.docSel)
  ELSE IF p.fieldSel # <<>> THEN p.fieldSel
  ELSE <<>>

hideSelectionButton(a) ==
  [a EXCEPT !.selectionButtonVisible = FALSE,
            !.selectionText = <<>>,
            !.pendingSelectionText = <<>>,
            !.isSelectionButtonPressed = FALSE]

showToast(a, isError) ==
  [a EXCEPT !.toast = IF isError THEN "error" ELSE "info"]

\* showSuggestionCard that leaves the selection button as it is
showSuggestionCard_keepsButton(a, text) ==
  [a EXCEPT !.rewrittenText = text,
            !.contentText = text,
            !.cursorShown = FALSE,
            !.streamTextNode = IF @ = "null" THEN @ ELSE "detached",
            !.cardVisible = TRUE]

\* showSuggestionCard that stores the text without writing it to the card
showSuggestionCard_keepsContent(a, text) ==
  hideSelectionButton([a EXCEPT !.rewrittenText = text, !.cardVisible = TRUE])

\* showSuggestionCard: content.textContent = text removes the children of the
\* content element, the stream text node and the cursor among them
showSuggestionCard(a, text) ==
  hideSelectionButton(
    [a EXCEPT !.rewrittenText = text,
              !.contentText = text,
              !.cursorShown = FALSE,
              !.streamTextNode = IF @ = "null" THEN @ ELSE "detached",
              !.cardVisible = TRUE])

\* setStreamingState that switches the Stop control only
setStreamingState_stopOnly(a, streaming) ==
  [a EXCEPT !.stopVisible = streaming,
            !.stopDisabled = FALSE]

setStreamingState(a, streaming) ==
  [a EXCEPT !.copyDisabled = streaming,
            !.closeDisabled = streaming,
            !.stopVisible = streaming,
            !.stopDisabled = FALSE]

startStreaming(a) ==
  LET a1 == [a EXCEPT !.isStreaming = TRUE,
                      !.streamContent = <<>>,
                      !.pendingTokens = <<>>,
                      !.rafPending = IF a.streamFlushRaf # 0
                                     THEN a.rafPending \ {a.streamFlushRaf}
                                     ELSE a.rafPending,
                      !.streamFlushRaf = 0]
      a2 == setStreamingState(showSuggestionCard(a1, <<>>), TRUE)
  IN  [a2 EXCEPT !.contentText = <<>>, !.cursorShown = TRUE,
                 !.streamTextNode = "attached"]

\* appendStreamToken without the isStreaming check
appendStreamToken_unguarded(a, token) ==
  LET a1 == [a EXCEPT !.pendingTokens = a.pendingTokens \o token]
  IN  IF a1.streamFlushRaf = 0
      THEN LET h == FreshRaf(a1)
           IN  [a1 EXCEPT !.streamFlushRaf = h,
                          !.rafPending = a1.rafPending \cup {h}]
      ELSE a1

appendStreamToken(a, token) ==
  IF ~a.isStreaming THEN a
  ELSE LET a1 == [a EXCEPT !.pendingTokens = a.pendingTokens \o token]
       IN  IF a1.streamFlushRaf = 0
           THEN LET h == FreshRaf(a1)
                IN  [a1 EXCEPT !.streamFlushRaf = h,
                               !.rafPending = a1.rafPending \cup {h}]
           ELSE a1

\* flushPendingTokens with rewrittenText assigned before the append
flushPendingTokens_staleCopy(a, force) ==
  IF ~a.isStreaming /\ ~force THEN a
  ELSE IF a.pendingTokens = <<>> THEN [a EXCEPT !.streamFlushRaf = 0]
  ELSE [a EXCEPT !.streamContent = a.streamContent \o a.pendingTokens,
                 !.contentText = IF a.streamTextNode = "detached" THEN @
                                 ELSE @ \o a.pendingTokens,
                 !.streamTextNode = IF @ = "null" THEN "attached" ELSE @,
                 !.pendingTokens = <<>>,
                 !.rewrittenText = a.streamContent,
                 !.streamFlushRaf = 0]

flushPendingTokens(a, force) ==
  IF ~a.isStreaming /\ ~force THEN a
  ELSE IF a.pendingTokens = <<>> THEN [a EXCEPT !.streamFlushRaf = 0]
  ELSE [a EXCEPT !.streamContent = a.streamContent \o a.pendingTokens,
                 !.contentText = IF a.streamTextNode = "detached" THEN @
                                 ELSE @ \o a.pendingTokens,
                 !.streamTextNode = IF @ = "null" THEN "attached" ELSE @,
                 !.pendingTokens = <<>>,
                 !.rewrittenText = a.streamContent \o a.pendingTokens,
                 !.streamFlushRaf = 0]

\* endStreaming that leaves the controls in their streaming state
endStreaming_keepsControls(a) ==
  LET a1 == flushPendingTokens(a, TRUE)
  IN  [a1 EXCEPT !.isStreaming = FALSE, !.cursorShown = FALSE]

\* endStreaming that drops the tokens still buffered
endStreaming_noFlush(a) ==
  LET a2 == setStreamingState([a EXCEPT !.isStreaming = FALSE,
                                        !.pendingTokens = <<>>,
                                        !.streamFlushRaf = 0], FALSE)
  IN  [a2 EXCEPT !.cursorShown = FALSE]

endStreaming(a) ==
  LET a1 == flushPendingTokens(a, TRUE)
      a2 == setStreamingState([a1 EXCEPT !.isStreaming = FALSE], FALSE)
  IN  [a2 EXCEPT !.cursorShown = FALSE]

\* cancelStreaming and hideSuggestionCard return the new agent and the
\* runtime messages they send
\* cancelStreaming that leaves the Stop control enabled
cancelStreaming_keepsStop(a) ==
  IF ~a.isStreaming THEN [a |-> a, out |-> <<>>]
  ELSE [a |-> a, out |-> <<BgMsg("STREAM_CANCEL", <<>>)>>]

cancelStreaming(a) ==
  IF ~a.isStreaming THEN [a |-> a, out |-> <<>>]
  ELSE [a   |-> [a EXCEPT !.stopDisabled = TRUE],
        out |-> <<BgMsg("STREAM_CANCEL", <<>>)>>]

\* copyToClipboard that writes the text of the running stream
copyToClipboard_streamContent(a, written) ==
  IF written
  THEN showToast([a EXCEPT !.clipboard = a.streamContent], FALSE)
  ELSE showToast(a, TRUE)

\* copyToClipboard; `written` says whether navigator.clipboard.writeText
\* resolved
copyToClipboard(a, written) ==
  IF written
  THEN showToast([a EXCEPT !.clipboard = a.rewrittenText], FALSE)
  ELSE showToast(a, TRUE)

\* hideSuggestionCard without the isStreaming branch
hideSuggestionCard_direct(a) ==
  [a |-> [a EXCEPT !.cardVisible = FALSE], out |-> <<>>]

hideSuggestionCard(a) ==
  IF a.isStreaming THEN cancelStreaming(a)
  ELSE [a |-> [a EXCEPT !.cardVisible = FALSE], out |-> <<>>]

\* selectionButton 'pointerdown' listener
pointerDown(a, p) ==
  LET selectionText == Trim(getSelectedText(p))
      a1 == [a EXCEPT !.isSelectionButtonPressed = TRUE]
  IN  IF selectionText # <<>>
      THEN [a1 EXCEPT !.pendingSelectionText = selectionText,
                      !.selectionText = selectionText]
      ELSE a1

\* selectionButton 'pointercancel' listener
pointerCancel(a) ==
  [a EXCEPT !.isSelectionButtonPressed = FALSE, !.pendingSelectionText = <<>>]

\* click listener that prefers the current selection to the pending text
clickSelectionButton_selectionFirst(a, p) ==
  IF a.isStreaming
  THEN [a |-> showToast(a, TRUE), out |-> <<>>]
  ELSE LET text == OrElse(Trim(getSelectedText(p)),
                          OrElse(Trim(a.pendingSelectionText), Trim(a.selectionText)))
       IN  IF text = <<>>
           THEN [a |-> hideSelectionButton(a), out |-> <<>>]
           ELSE [a   |-> hideSelectionButton(a),
                 out |-> <<BgMsg("REWRITE_SELECTED_TEXT", text)>>]

\* selectionButton 'click' listener
clickSelectionButton(a, p) ==
  IF a.isStreaming
  THEN [a |-> showToast(a, TRUE), out |-> <<>>]
  ELSE LET text == OrElse(Trim(a.pendingSelectionText),
                          OrElse(Trim(getSelectedText(p)), Trim(a.selectionText)))
       IN  IF text = <<>>
           THEN [a |-> hideSelectionButton(a), out |-> <<>>]
           ELSE [a   |-> hideSelectionButton(a),
                 out |-> <<BgMsg("REWRITE_SELECTED_TEXT", text)>>]

\* updateLastSelection that also remembers an empty text
updateLastSelection_always(a, selectedText) ==
  [a EXCEPT !.lastSelectionText = Trim(selectedText)]

updateLastSelection(a, selectedText) ==
  IF Trim(selectedText) # <<>>
  THEN [a EXCEPT !.lastSelectionText = Trim(selectedText)]
  ELSE a

\* positionSelectionButton: the coordinates are not modelled here
positionSelectionButton(a) == [a EXCEPT !.selectionButtonVisible = TRUE]

\* handleSelectionChange without the test for an empty text
handleSelectionChange_noEmptyTest(a, p, hasRect) ==
  IF a.isStreaming THEN a
  ELSE IF a.isSelectionButtonPressed THEN a
  ELSE IF a.cardVisible THEN hideSelectionButton(a)
  ELSE LET selectedText == getSelectedText(p)
           a1 == updateLastSelection(a, selectedText)
       IN  IF ~hasRect THEN hideSelectionButton(a1)
           ELSE positionSelectionButton([a1 EXCEPT !.selectionText = selectedText])

\* handleSelectionChange without the test of the pressed flag
handleSelectionChange_ignoresPress(a, p, hasRect) ==
  IF a.isStreaming THEN a
  ELSE IF a.cardVisible THEN hideSelectionButton(a)
  ELSE LET selectedText == getSelectedText(p)
           a1 == updateLastSelection(a, selectedText)
       IN  IF selectedText = <<>> THEN hideSelectionButton(a1)
           ELSE IF ~hasRect THEN hideSelectionButton(a1)
           ELSE positionSelectionButton([a1 EXCEPT !.selectionText = selectedText])

\* handleSelectionChange; hasRect says whether getSelectionRect found a rectangle
handleSelectionChange(a, p, hasRect) ==
  IF a.isStreaming THEN a
  ELSE IF a.isSelectionButtonPressed THEN a
  ELSE IF a.cardVisible THEN hideSelectionButton(a)
  ELSE LET selectedText == getSelectedText(p)
           a1 == updateLastSelection(a, selectedText)
       IN  IF selectedText = <<>> THEN hideSelectionButton(a1)
           ELSE IF ~hasRect THEN hideSelectionButton(a1)
           ELSE positionSelectionButton([a1 EXCEPT !.selectionText = selectedText])

\* chrome.runtime.onMessage listener of the content script: the new agent,
\* the runtime messages sent and the value passed to sendResponse
onMessage(a, p, m) ==
  CASE m.type = "GET_SELECTED_TEXT" ->
         [a |-> a, out |-> <<>>, reply |-> getSelectedText(p)]
    [] m.type = "GET_LAST_SELECTION" ->
         [a |-> a, out |-> <<>>,
          reply |-> OrElse(a.lastSelectionText, getSelectedText(p))]
    [] m.type = "STREAM_START" ->
         [a |-> startStreaming(a), out |-> <<>>, reply |-> <<>>]
    [] m.type = "STREAM_TOKEN" ->
         [a |-> IF m.token # <<>> THEN appendStreamToken(a, m.token) ELSE a,
          out |-> <<>>, reply |-> <<>>]
    [] m.type = "STREAM_END" ->
         [a |-> endStreaming(a), out |-> <<>>, reply |-> <<>>]
    [] m.type = "REWRITE_TEXT" /\ m.token # <<>> ->
         [a |-> showSuggestionCard(a, m.token), out |-> <<>>, reply |-> <<>>]
    [] m.type \in {"STREAM_ERROR", "SHOW_ERROR"} /\ m.token # <<>> ->
         LET r == hideSuggestionCard(showToast(endStreaming(a), TRUE))
         IN  [a |-> r.a, out |-> r.out, reply |-> <<>>]
    [] OTHER -> [a |-> a, out |-> <<>>, reply |-> <<>>]

\* ========================================================== coordinator
RunInit == [pc |-> "unused", tab |-> 0, provider |-> "none", fullContent |-> <<>>]

InProgress(s) == run[s].pc \in {"getSettings", "create", "stream"}

\* error texts: error.message of a thrown Error may be the empty string
ErrorTexts == {<<>>, <<"e">>}
KeyMissing == <<"k">>   \* 'API key not found. Please set your API key ...'
Unknown    == <<"u">>   \* 'An unknown error occurred'
Failed     == <<"f">>   \* 'Failed to rewrite text'

\* activeStreams.get(tabId)?.cancelled
isCancelled(t) == activeStreams[t] = "cancelled"

\* the callbacks runRewrite hands to rewriteText: the messages each sends
\* onToken that takes a missing activeStreams entry for a cancelled one
onToken_needsEntry(s, token) ==
  IF activeStreams[run[s].tab] # "live" THEN <<>>
  ELSE <<TabMsg("STREAM_TOKEN", token, s, hist.cancelled[s])>>

onToken(s, token) ==
  IF isCancelled(run[s].tab) THEN <<>>
  ELSE <<TabMsg("STREAM_TOKEN", token, s, hist.cancelled[s])>>

onComplete(s) ==
  IF isCancelled(run[s].tab) THEN <<>>
  ELSE <<TabMsg("STREAM_END", <<>>, s, hist.cancelled[s])>>

onError(s, error) ==
  IF isCancelled(run[s].tab) THEN <<>>
  ELSE <<TabMsg("STREAM_ERROR", error, s, hist.cancelled[s])>>

\* runRewrite without the fallback: a failed response is reported by the
\* callbacks only
fallbackError_callbacksOnly(s, response, streamErrorEmitted) == <<>>

\* the fallback without its streamErrorEmitted / errorHandled guards
fallbackError_unguarded(s, response, streamErrorEmitted) ==
  IF ~response.success
  THEN <<TabMsg("STREAM_ERROR", OrElse(response.error, Failed), s,
                hist.cancelled[s])>>
  ELSE <<>>

\* runRewrite after rewriteText has returned: the fallback STREAM_ERROR
fallbackError(s, response, streamErrorEmitted) ==
  IF ~response.success /\ ~streamErrorEmitted /\ ~response.errorHandled
  THEN <<TabMsg("STREAM_ERROR", OrElse(response.error, Failed), s,
                hist.cancelled[s])>>
  ELSE <<>>

\* runRewrite up to its first await: register the stream, announce it and
\* enter rewriteText (which awaits getSettings).  The payload of STREAM_START
\* is empty; its token field records selectedText as history.
runRewrite(t, selectedText) ==
  LET s == nextSession
  IN  /\ activeStreams' = [activeStreams EXCEPT ![t] = "live"]
      /\ toTab' = [toTab EXCEPT
                     ![t] = Append(@, TabMsg("STREAM_START", selectedText, s, FALSE))]
      /\ run' = [run EXCEPT ![s] = [pc |-> "getSettings", tab |-> t,
                                    provider |-> "none", fullContent |-> <<>>]]
      /\ nextSession' = s + 1

\* rewriteText has returned `response` after its callbacks sent `sent`
\* (streamErrorEmitted tells whether onError set the flag): the rest of
\* runRewrite, through the finally block.  The locals of the invocation and
\* its history are dropped.
returnFromRewrite(s, response, sent, streamErrorEmitted) ==
  LET t    == run[s].tab
      msgs == sent \o fallbackError(s, response, streamErrorEmitted)
  IN  /\ toTab' = [toTab EXCEPT ![t] = @ \o msgs]
      /\ activeStreams' = [activeStreams EXCEPT ![t] = "absent"]
      /\ run' = [run EXCEPT ![s] = [RunInit EXCEPT !.pc = "returned"]]
      /\ aborted' = [aborted EXCEPT ![s] = FALSE]
      /\ hist' = [hist EXCEPT !.emitted[s] = <<>>,
                              !.tokensSent[s] = <<>>,
                              !.cancelled[s] = FALSE]

\* rewriteText: getSettings resolved
SettingsResolved(s) ==
  /\ run[s].pc = "getSettings"
  /\ \E hasKey \in BOOLEAN, provider \in Providers :
       IF ~hasKey
       THEN /\ returnFromRewrite(s, [success |-> FALSE, error |-> KeyMissing,
                                     errorHandled |-> FALSE], <<>>, FALSE)
            /\ UNCHANGED abortController
       ELSE /\ abortController' = s
            /\ aborted' = [aborted EXCEPT ![s] = FALSE]
            /\ run' = [run EXCEPT ![s].pc = "create", ![s].provider = provider]
            /\ UNCHANGED <<activeStreams, toTab, hist>>
  /\ UNCHANGED <<nextSession, menu, toBg, agent, page, popup>>

\* chat.completions.create / generateContentStream resolved
CreateResolved(s) ==
  /\ run[s].pc = "create"
  /\ run' = [run EXCEPT ![s].pc = "stream"]
  /\ UNCHANGED <<activeStreams, abortController, aborted, nextSession, menu,
                 toTab, toBg, agent, page, popup, hist>>

\* ... or rejected: the outer catch of rewriteText / rewriteWithGemini
CreateRejected(s) ==
  /\ run[s].pc = "create"
  /\ \E isError \in BOOLEAN, message \in ErrorTexts :
       returnFromRewrite(s, [success |-> FALSE,
                             error |-> IF isError THEN message ELSE Unknown,
                             errorHandled |-> FALSE], <<>>, FALSE)
  /\ UNCHANGED <<abortController, nextSession, menu, toBg, agent, page, popup>>

\* this.abortController?.signal.aborted
signalAborted == abortController # NoSession /\ aborted[abortController]

\* the for-await loop without the test for an empty delta
StreamChunk_passesEmpty(s) ==
  /\ run[s].pc = "stream"
  /\ IF run[s].provider = "gemini" /\ signalAborted
     THEN \* wasCancelled: leave the loop and return without onComplete
          returnFromRewrite(s, [success |-> TRUE, error |-> <<>>,
                                errorHandled |-> FALSE], <<>>, FALSE)
     ELSE /\ Len(hist.emitted[s]) < MaxTokens
          /\ \E token \in TokenValues(Len(hist.emitted[s]) + 1) :
               /\ toTab' = [toTab EXCEPT
                              ![run[s].tab] = @ \o onToken(s, token)]
               /\ run' = [run EXCEPT ![s].fullContent = @ \o token]
               /\ hist' = [hist EXCEPT
                    !.emitted[s] = Append(@, token),
                    !.tokensSent[s] =
                       @ \o [i \in 1..Len(onToken(s, token)) |->
                               onToken(s, token)[i].token]]
          /\ UNCHANGED <<activeStreams, aborted>>
  /\ UNCHANGED <<abortController, nextSession, menu, toBg, agent, page, popup>>

\* one chunk of the provider stream arrives in the for-await loop
StreamChunk(s) ==
  /\ run[s].pc = "stream"
  /\ IF run[s].provider = "gemini" /\ signalAborted
     THEN \* wasCancelled: leave the loop and return without onComplete
          returnFromRewrite(s, [success |-> TRUE, error |-> <<>>,
                                errorHandled |-> FALSE], <<>>, FALSE)
     ELSE /\ Len(hist.emitted[s]) < MaxTokens
          /\ \E token \in TokenValues(Len(hist.emitted[s]) + 1) :
               IF run[s].provider = "openrouter" /\ token = <<>>
               THEN UNCHANGED <<toTab, hist, run>>
               ELSE /\ toTab' = [toTab EXCEPT
                                   ![run[s].tab] = @ \o onToken(s, token)]
                    /\ run' = [run EXCEPT ![s].fullContent = @ \o token]
                    /\ hist' = [hist EXCEPT
                         !.emitted[s] = Append(@, token),
                         !.tokensSent[s] =
                            @ \o [i \in 1..Len(onToken(s, token)) |->
                                    onToken(s, token)[i].token]]
          /\ UNCHANGED <<activeStreams, aborted>>
  /\ UNCHANGED <<abortController, nextSession, menu, toBg, agent, page, popup>>

\* the value rewriteText returns after the loop and onComplete
completedResponse(s) ==
  [success |-> TRUE, content |-> run[s].fullContent, isStreaming |-> TRUE,
   error |-> <<>>, errorHandled |-> FALSE]

\* the provider stream ended: onComplete, success
StreamCompleted(s) ==
  /\ run[s].pc = "stream"
  /\ returnFromRewrite(s, completedResponse(s), onComplete(s), FALSE)
  /\ UNCHANGED <<abortController, nextSession, menu, toBg, agent, page, popup>>

\* the for-await loop threw: the inner catch
StreamThrew(s) ==
  /\ run[s].pc = "stream"
  /\ \E isError \in BOOLEAN, message \in ErrorTexts :
       LET sent    == IF isError THEN onError(s, message) ELSE <<>>
           handled == IF run[s].provider = "gemini" THEN TRUE ELSE isError
       IN  returnFromRewrite(s, [success |-> FALSE,
                                 error |-> IF isError THEN message ELSE Unknown,
                                 errorHandled |-> handled], sent, sent # <<>>)
  /\ UNCHANGED <<abortController, nextSession, menu, toBg, agent, page, popup>>

\* AIService.cancelStream
cancelStream ==
  IF abortController # NoSession
  THEN /\ aborted' = [aborted EXCEPT ![abortController] = TRUE]
       /\ abortController' = NoSession
  ELSE UNCHANGED <<aborted, abortController>>

\* a STREAM_CANCEL branch that leaves STREAM_END to the provider callbacks
cancelReply_deferred(t) == <<>>

\* the messages the STREAM_CANCEL branch of runtime.onMessage sends to the tab
cancelReply(t) == <<TabMsg("STREAM_END", <<>>, NoSession, FALSE)>>

\* the REWRITE_SELECTED_TEXT branch: is the request accepted
acceptsRewrite(text) == text # <<>>

\* gestures still allowed: every request in flight can get a session number
RequestsInFlight ==
  Cardinality({t \in Tabs : menu[t].pc # "idle"})
  + Cardinality(UNION {{<<t, i>> : i \in {j \in DOMAIN toBg[t] :
                         toBg[t][j].type = "REWRITE_SELECTED_TEXT"}} : t \in Tabs})

MayRequest == (nextSession - 1) + RequestsInFlight < MaxSessions

\* chrome.runtime.onMessage listener of the background script
BgReceive(t) ==
  /\ toBg[t] # <<>>
  /\ toBg' = [toBg EXCEPT ![t] = Tail(@)]
  /\ LET m == Head(toBg[t])
     IN  IF m.type = "STREAM_CANCEL"
         THEN /\ activeStreams' = [activeStreams EXCEPT
                   ![t] = IF @ = "absent" THEN @ ELSE "cancelled"]
              /\ cancelStream
              /\ toTab' = [toTab EXCEPT ![t] = @ \o cancelReply(t)]
              /\ hist' = [hist EXCEPT !.cancelled =
                   [s \in Sessions |->
                      @[s] \/ (InProgress(s) /\ run[s].tab = t)]]
              /\ UNCHANGED <<run, nextSession>>
         ELSE IF m.type = "REWRITE_SELECTED_TEXT" /\ acceptsRewrite(m.text)
         THEN /\ runRewrite(t, m.text)
              /\ UNCHANGED <<aborted, abortController, hist>>
         ELSE UNCHANGED <<activeStreams, aborted, abortController, run,
                          nextSession, toTab, hist>>
  /\ UNCHANGED <<menu, agent, page, popup>>

\* contextMenus.onClicked: a menu item is clicked with info.selectionText
MenuClicked(t) ==
  /\ menu[t].pc = "idle"
  /\ MayRequest
  /\ \E info \in Texts :
       IF info # <<>>
       THEN /\ runRewrite(t, info)
            /\ UNCHANGED menu
       ELSE /\ toTab' = [toTab EXCEPT
                 ![t] = Append(@, TabMsg("GET_SELECTED_TEXT", <<>>, NoSession, FALSE))]
            /\ menu' = [menu EXCEPT ![t] = [pc |-> "askSelected", reply |-> <<>>]]
            /\ UNCHANGED <<activeStreams, run, nextSession>>
  /\ UNCHANGED <<abortController, aborted, toBg, agent, page, popup, hist>>

\* the handler taking the replies as they come, without trim()
MenuResumed_untrimmed(t) ==
  /\ menu[t].pc \in {"gotSelected", "gotLast"}
  /\ LET selectedText == menu[t].reply
     IN  IF selectedText # <<>>
         THEN /\ runRewrite(t, selectedText)
              /\ menu' = [menu EXCEPT ![t] = [pc |-> "idle", reply |-> <<>>]]
         ELSE IF menu[t].pc = "gotSelected"
         THEN /\ toTab' = [toTab EXCEPT
                   ![t] = Append(@, TabMsg("GET_LAST_SELECTION", <<>>, NoSession, FALSE))]
              /\ menu' = [menu EXCEPT ![t] = [pc |-> "askLast", reply |-> <<>>]]
              /\ UNCHANGED <<activeStreams, run, nextSession>>
         ELSE /\ menu' = [menu EXCEPT ![t] = [pc |-> "idle", reply |-> <<>>]]
              /\ UNCHANGED <<activeStreams, run, nextSession, toTab>>
  /\ UNCHANGED <<abortController, aborted, toBg, agent, page, popup, hist>>

\* ... the handler resumes with the agent's reply (or '' after a rejection)
MenuResumed(t) ==
  /\ menu[t].pc \in {"gotSelected", "gotLast"}
  /\ LET selectedText == Trim(menu[t].reply)
     IN  IF selectedText # <<>>
         THEN /\ runRewrite(t, selectedText)
              /\ menu' = [menu EXCEPT ![t] = [pc |-> "idle", reply |-> <<>>]]
         ELSE IF menu[t].pc = "gotSelected"
         THEN /\ toTab' = [toTab EXCEPT
                   ![t] = Append(@, TabMsg("GET_LAST_SELECTION", <<>>, NoSession, FALSE))]
              /\ menu' = [menu EXCEPT ![t] = [pc |-> "askLast", reply |-> <<>>]]
              /\ UNCHANGED <<activeStreams, run, nextSession>>
         ELSE /\ menu' = [menu EXCEPT ![t] = [pc |-> "idle", reply |-> <<>>]]
              /\ UNCHANGED <<activeStreams, run, nextSession, toTab>>
  /\ UNCHANGED <<abortController, aborted, toBg, agent, page, popup, hist>>

\* ===================================================== page agent actions
coordinatorVars == <<activeStreams, abortController, aborted, run, nextSession>>

\* the agent of tab t becomes a and sends out; h is the history update
AgentStep(t, a, out) ==
  /\ agent' = [agent EXCEPT ![t] = a]
  /\ toBg' = [toBg EXCEPT ![t] = @ \o out]

CountCancels(out) ==
  Len(SelectSeq(out, LAMBDA m : m.type = "STREAM_CANCEL"))

MaySend(t, out) ==
  \/ out = <<>>
  \/ /\ hist.cancelsSent[t] + CountCancels(out) <= MaxCancels
     /\ \A i \in 1..Len(out) : out[i].type = "REWRITE_SELECTED_TEXT" => MayRequest

\* a user gesture handled by a listener that returns [a, out]
Gesture(t, r) ==
  /\ MaySend(t, r.out)
  /\ AgentStep(t, r.a, r.out)
  /\ hist' = [hist EXCEPT !.cancelsSent[t] = @ + CountCancels(r.out),
                          !.stopped[t] = /\ r.a.cardVisible
                                         /\ @ \/ CountCancels(r.out) > 0]
  /\ UNCHANGED <<coordinatorVars, menu, toTab, page, popup>>

ClickStop(t) ==
  /\ agent[t].cardVisible /\ agent[t].stopVisible /\ ~agent[t].stopDisabled
  /\ Gesture(t, cancelStreaming(agent[t]))

\* Escape key: the keydown listener acts only while the card is displayed
PressEscape(t) ==
  /\ agent[t].cardVisible
  /\ Gesture(t, hideSuggestionCard(agent[t]))

ClickOverlay(t) ==
  /\ agent[t].cardVisible
  /\ Gesture(t, hideSuggestionCard(agent[t]))

ClickClose(t) ==
  /\ agent[t].cardVisible /\ ~agent[t].closeDisabled
  /\ Gesture(t, hideSuggestionCard(agent[t]))

\* Copy button: a disabled button receives no click
ClickCopy(t) ==
  /\ agent[t].cardVisible /\ ~agent[t].copyDisabled
  /\ \E written \in BOOLEAN :
       Gesture(t, [a |-> copyToClipboard(agent[t], written), out |-> <<>>])

PointerDown(t) ==
  /\ agent[t].selectionButtonVisible
  /\ Gesture(t, [a |-> pointerDown(agent[t], page[t]), out |-> <<>>])

PointerCancel(t) ==
  /\ agent[t].selectionButtonVisible
  /\ agent[t].isSelectionButtonPressed
  /\ Gesture(t, [a |-> pointerCancel(agent[t]), out |-> <<>>])

ClickSelectionButton(t) ==
  /\ agent[t].selectionButtonVisible
  /\ Gesture(t, clickSelectionButton(agent[t], page[t]))

\* the selections a page can hold: a document selection or the selected
\* part of a focused input/textarea, never both
PageStates ==
  {[docSel |-> d, fieldSel |-> <<>>] : d \in Texts}
  \cup {[docSel |-> <<>>, fieldSel |-> f] : f \in Texts}

\* the user changes the selection to one of `pages`
SelectionChangedTo(t, pages) ==
  /\ \E p \in pages :
       /\ p # page[t]
       /\ page' = [page EXCEPT ![t] = p]
       /\ hist' = [hist EXCEPT !.selected[t] =
                     IF p # PageInit THEN "selected" ELSE @]
  /\ UNCHANGED <<coordinatorVars, menu, toTab, toBg, agent, popup>>

SelectionChanged(t) == SelectionChangedTo(t, PageStates)

\* the anchor rectangles getSelectionRect returns and the viewport widths,
\* in pixels; NoRect is its null
RectTops    == {-10, 43, 44, 100}
RectHeights == {1, 20}
RectLefts   == {-50, 30, 100}
RectWidths  == {1, 200}
InnerWidths == {30, 43, 44, 100, 320}
Rects ==
  {[top |-> tp, bottom |-> tp + h, left |-> l, width |-> w] :
     tp \in RectTops, h \in RectHeights, l \in RectLefts, w \in RectWidths}
NoRect == [top |-> 0, bottom |-> 0, left |-> 0, width |-> 0]

\* the top and left positionSelectionButton gives the button, without the
\* clamp at the right edge of the viewport
selectionButtonPosition_noRightClamp(rect, innerWidth) ==
  LET buttonSize == 28
      padding    == 8
      top0  == rect.top - buttonSize - padding
      top   == IF top0 < padding THEN rect.bottom + padding ELSE top0
      left0 == rect.left + rect.width - buttonSize
      left  == IF left0 < padding THEN padding ELSE left0
  IN  [top |-> top, left |-> left]

\* the top and left positionSelectionButton gives the button
selectionButtonPosition(rect, innerWidth) ==
  LET buttonSize == 28
      padding    == 8
      top0  == rect.top - buttonSize - padding
      top   == IF top0 < padding THEN rect.bottom + padding ELSE top0
      left0 == rect.left + rect.width - buttonSize
      left1 == IF left0 < padding THEN padding ELSE left0
      left  == IF left1 + buttonSize > innerWidth - padding
               THEN innerWidth - buttonSize - padding ELSE left1
  IN  [top |-> top, left |-> left]

\* handleSelectionChange with the rectangle of the selection and the width of
\* the viewport
reachesPositionSelectionButton(a, p, rect) ==
  /\ ~a.isStreaming
  /\ ~a.isSelectionButtonPressed
  /\ ~a.cardVisible
  /\ getSelectedText(p) # <<>>
  /\ rect # NoRect

handleSelectionChangeAt(a, p, rect, innerWidth) ==
  LET b == handleSelectionChange(a, p, rect # NoRect)
  IN  IF reachesPositionSelectionButton(a, p, rect)
      THEN [b EXCEPT !.selectionButtonStyle =
                       selectionButtonPosition(rect, innerWidth)]
      ELSE b

\* a scheduled recomputation runs while the selection has the rectangle rect
\* in a viewport innerWidth wide
PositionedSelectionFrame(t) ==
  \E rect \in Rects \cup {NoRect}, innerWidth \in InnerWidths :
    /\ agent' = [agent EXCEPT ![t] =
                   handleSelectionChangeAt(@, page[t], rect, innerWidth)]
    /\ hist' = [hist EXCEPT
         !.selected[t] = IF page[t] = PageInit /\ @ = "selected"
                         THEN "cleared" ELSE "none",
         !.positioned[t] =
           IF reachesPositionSelectionButton(agent[t], page[t], rect)
           THEN [rect |-> rect, innerWidth |-> innerWidth]
           ELSE @]
    /\ UNCHANGED <<coordinatorVars, menu, toTab, toBg, page, popup>>

\* requestAnimationFrame in scheduleSelectionUpdate: a handle not in use
FreshSelectionRaf(a) ==
  CHOOSE i \in 1..(Cardinality(a.selectionRafPending) + 1) :
    /\ i \notin a.selectionRafPending
    /\ \A j \in 1..(i - 1) : j \in a.selectionRafPending

\* scheduleSelectionUpdate that does not cancel the callback scheduled before
scheduleSelectionUpdate_stacking(a) ==
  LET h == FreshSelectionRaf(a)
  IN  [a EXCEPT !.selectionUpdateRaf = h,
                !.selectionRafPending = @ \cup {h}]

scheduleSelectionUpdate(a) ==
  LET a1 == IF a.selectionUpdateRaf # 0
            THEN [a EXCEPT !.selectionRafPending = @ \ {a.selectionUpdateRaf}]
            ELSE a
      h  == FreshSelectionRaf(a1)
  IN  [a1 EXCEPT !.selectionUpdateRaf = h,
                 !.selectionRafPending = @ \cup {h}]

\* a selectionchange, mouseup or keyup event reaches its listener
SelectionEvent(t) ==
  /\ hist.burst[t] < MaxBurst
  /\ agent' = [agent EXCEPT ![t] = scheduleSelectionUpdate(@)]
  /\ hist' = [hist EXCEPT !.burst[t] = @ + 1]
  /\ UNCHANGED <<coordinatorVars, menu, toTab, toBg, page, popup>>

\* a scheduled callback of scheduleSelectionUpdate runs
ScheduledSelectionFrame(t) ==
  /\ \E h \in agent[t].selectionRafPending, hasRect \in BOOLEAN :
       agent' = [agent EXCEPT ![t] =
         handleSelectionChange([@ EXCEPT !.selectionUpdateRaf = 0,
                                         !.selectionRafPending = @ \ {h}],
                               page[t], hasRect)]
  /\ hist' = [hist EXCEPT !.burst[t] = 0,
                          !.selected[t] =
                            IF page[t] = PageInit /\ @ = "selected"
                            THEN "cleared" ELSE "none"]
  /\ UNCHANGED <<coordinatorVars, menu, toTab, toBg, page, popup>>

\* the frame callback scheduled by scheduleSelectionUpdate runs
SelectionFrame(t) ==
  /\ \E hasRect \in BOOLEAN :
       agent' = [agent EXCEPT ![t] = handleSelectionChange(@, page[t], hasRect)]
  /\ hist' = [hist EXCEPT !.selected[t] =
                IF page[t] = PageInit /\ @ = "selected" THEN "cleared"
                ELSE "none"]
  /\ UNCHANGED <<coordinatorVars, menu, toTab, toBg, page, popup>>

\* scroll or resize listener
ScrollOrResize(t) ==
  /\ agent' = [agent EXCEPT ![t] = hideSelectionButton(@)]
  /\ UNCHANGED <<coordinatorVars, menu, toTab, toBg, page, popup, hist>>

\* a scheduled flushPendingTokens frame callback runs
FlushFrame(t) ==
  /\ \E h \in agent[t].rafPending :
       agent' = [agent EXCEPT
         ![t] = flushPendingTokens([@ EXCEPT !.rafPending = @ \ {h}], FALSE)]
  /\ UNCHANGED <<coordinatorVars, menu, toTab, toBg, page, popup, hist>>

\* the setTimeout of showToast hides the toast
ToastTimeout(t) ==
  /\ agent[t].toast # "none"
  /\ agent' = [agent EXCEPT ![t].toast = "none"]
  /\ UNCHANGED <<coordinatorVars, menu, toTab, toBg, page, popup, hist>>

IsQuery(m) == m.type \in {"GET_SELECTED_TEXT", "GET_LAST_SELECTION"}

\* history kept beside the agent: the tokens received since STREAM_START,
\* whether STREAM_END closed that sequence, the cancels sent, and the
\* STREAM_END messages seen since STREAM_START (none, one, or 2 for several),
\* whether the user asked to stop the stream whose card is open, and whether
\* text was selected since the last selection recomputation ("selected") or
\* that recomputation found such a selection cleared again ("cleared")
Observe(h, t, m, a, out) ==
  CASE m.type = "STREAM_START" ->
         [h EXCEPT !.recv[t] = <<>>, !.phase[t] = "open",
                   !.endsSeen[t] = 0, !.stopped[t] = FALSE]
    [] m.type = "STREAM_TOKEN" ->
         [h EXCEPT !.recv[t] = IF h.phase[t] = "open" THEN @ \o m.token ELSE @]
    [] m.type = "STREAM_END" ->
         [h EXCEPT !.phase[t] = IF @ = "open" THEN "closed" ELSE @,
                   !.endsSeen[t] = IF @ = 0 THEN 1 ELSE 2]
    [] m.type \in {"STREAM_ERROR", "SHOW_ERROR", "REWRITE_TEXT"} ->
         [h EXCEPT !.phase[t] = IF m.token # <<>> THEN "none" ELSE @,
                   !.stopped[t] = IF m.token # <<>> THEN FALSE ELSE @]
    [] OTHER -> h

\* the content script receives the next message of its tab
AgentReceive(t) ==
  /\ toTab[t] # <<>>
  /\ LET m == Head(toTab[t])
         r == onMessage(agent[t], page[t], m)
     IN  /\ MaySend(t, r.out)
         /\ AgentStep(t, r.a, r.out)
         /\ toTab' = [toTab EXCEPT ![t] = Tail(@)]
         /\ menu' = IF IsQuery(m)
                    THEN [menu EXCEPT ![t] =
                            [pc |-> IF m.type = "GET_SELECTED_TEXT"
                                    THEN "gotSelected" ELSE "gotLast",
                             reply |-> r.reply]]
                    ELSE menu
         /\ hist' = Observe(hist, t, m, r.a, r.out)
  /\ UNCHANGED <<coordinatorVars, page, popup>>

\* chrome.tabs.sendMessage of a query rejects (no receiver in the tab):
\* the catch block of the handler sets selectedText = ''
QueryRejected(t) ==
  /\ toTab[t] # <<>>
  /\ IsQuery(Head(toTab[t]))
  /\ toTab' = [toTab EXCEPT ![t] = Tail(@)]
  /\ menu' = [menu EXCEPT ![t] =
                [pc |-> IF Head(toTab[t]).type = "GET_SELECTED_TEXT"
                        THEN "gotSelected" ELSE "gotLast",
                 reply |-> <<>>]]
  /\ UNCHANGED <<coordinatorVars, toBg, agent, page, popup, hist>>

\* ================================================================== popup
\* PopupUI.fetchAndPopulateModels with AIService.fetchModels and the model
\* cache of StorageService (chrome.storage.local, key 'modelCache').
Calls == 1..MaxCalls

\* the model list a provider answers with
ModelList(provider) == IF provider = "openrouter" THEN <<"o">> ELSE <<"g">>

\* ModelCacheEntry, and the null getModelCache resolves to
NoEntry == [present |-> FALSE, models |-> <<>>, fetchedAt |-> 0]
CacheEntry(models, now) == [present |-> TRUE, models |-> models, fetchedAt |-> now]

\* modelCacheTtlMs, in clock units
modelCacheTtl == 1

CallInit ==
  [pc           |-> "idle",
   provider     |-> "openrouter",
   forceRefresh |-> FALSE,
   cacheEntry   |-> NoEntry,     \* what getModelCache resolved to
   models       |-> <<>>,        \* what fetchModels resolved to
   updatedCache |-> [p \in Providers |-> NoEntry]]   \* setModelCache's local

PopupInit ==
  [modelCache      |-> [p \in Providers |-> NoEntry],   \* storage.local
   modelList       |-> <<>>,      \* options of the models datalist
   modelStatus     |-> "none",
   refreshDisabled |-> FALSE,
   now             |-> 0,
   calls           |-> [c \in Calls |-> CallInit]]

\* AIService.fetchModels: a network error or a non-OK response gives []
fetchModels(provider, ok) == IF ok THEN ModelList(provider) ELSE <<>>

\* a listener calls fetchAndPopulateModels with an API key entered: the
\* refresh button forces the refresh, the change and blur listeners clear the
\* model status first (initializeUI finds it clear)
ModelsRequested(c) ==
  /\ popup.calls[c].pc = "idle"
  /\ \E provider \in Providers, forceRefresh \in BOOLEAN :
       /\ forceRefresh => ~popup.refreshDisabled
       /\ popup' = [popup EXCEPT
            !.modelStatus = IF forceRefresh THEN @ ELSE "none",
            !.calls[c] = [CallInit EXCEPT !.pc = "getModelCache",
                                          !.provider = provider,
                                          !.forceRefresh = forceRefresh]]
  /\ UNCHANGED <<coordinatorVars, menu, toTab, toBg, agent, page, hist>>

\* await getModelCache(provider) resolved
GetModelCacheResolved(c) ==
  /\ popup.calls[c].pc = "getModelCache"
  /\ LET call         == popup.calls[c]
         cacheEntry   == popup.modelCache[call.provider]
         isCacheFresh == /\ cacheEntry.present
                         /\ popup.now - cacheEntry.fetchedAt < modelCacheTtl
     IN  IF ~call.forceRefresh /\ cacheEntry.present /\ isCacheFresh
         THEN popup' = [popup EXCEPT !.modelList = cacheEntry.models,
                                     !.modelStatus = "cached",
                                     !.calls[c] = CallInit]
         ELSE popup' = [popup EXCEPT !.refreshDisabled = TRUE,
                                     !.modelStatus = "fetching",
                                     !.calls[c].pc = "fetchModels",
                                     !.calls[c].cacheEntry = cacheEntry]
  /\ UNCHANGED <<coordinatorVars, menu, toTab, toBg, agent, page, hist>>

\* await fetchModels(provider, apiKey) resolved (it never rejects): the list
\* is shown and setModelCache issues its storage read
FetchModelsResolved(c) ==
  /\ popup.calls[c].pc = "fetchModels"
  /\ \E ok \in BOOLEAN :
       LET models == fetchModels(popup.calls[c].provider, ok)
       IN  /\ popup' = [popup EXCEPT !.modelList = models,
                                     !.calls[c].models = models,
                                     !.calls[c].pc = "setModelCacheGet"]
           /\ hist' = [hist EXCEPT !.refreshFailed[c] = ~ok]
  /\ UNCHANGED <<coordinatorVars, menu, toTab, toBg, agent, page>>

\* setModelCache: the callback of chrome.storage.local.get builds
\* updatedCache and issues the storage write
SetModelCacheRead(c) ==
  /\ popup.calls[c].pc = "setModelCacheGet"
  /\ LET call == popup.calls[c]
     IN  popup' = [popup EXCEPT
           !.calls[c].updatedCache =
              [popup.modelCache EXCEPT
                 ![call.provider] = CacheEntry(call.models, popup.now)],
           !.calls[c].pc = "setModelCacheSet"]
  /\ UNCHANGED <<coordinatorVars, menu, toTab, toBg, agent, page, hist>>

\* setModelCache: the storage write is done and its callback resolves; the
\* rest of fetchAndPopulateModels, through the finally block
SetModelCacheWritten(c) ==
  /\ popup.calls[c].pc = "setModelCacheSet"
  /\ popup' = [popup EXCEPT !.modelCache = popup.calls[c].updatedCache,
                            !.modelStatus = "updated",
                            !.refreshDisabled = FALSE,
                            !.calls[c] = CallInit]
  /\ hist' = [hist EXCEPT !.refreshFailed[c] = FALSE,
                          !.cacheSet = @ \cup {popup.calls[c].provider}]
  /\ UNCHANGED <<coordinatorVars, menu, toTab, toBg, agent, page>>

\* Date.now() moves on by modelCacheTtlMs
TimePassed ==
  /\ popup.now < MaxTime
  /\ popup' = [popup EXCEPT !.now = @ + 1]
  /\ UNCHANGED <<coordinatorVars, menu, toTab, toBg, agent, page, hist>>

\* ================================================================= system
\* every step leaves at most MaxInFlight messages waiting in a tab's queue
Room == \A t \in Tabs : Len(toTab'[t]) <= MaxInFlight

InitCommon ==
  /\ activeStreams = [t \in Tabs |-> "absent"]
  /\ abortController = NoSession
  /\ aborted = [s \in Sessions |-> FALSE]
  /\ run = [s \in Sessions |-> RunInit]
  /\ nextSession = 1
  /\ menu = [t \in Tabs |-> [pc |-> "idle", reply |-> <<>>]]
  /\ toTab = [t \in Tabs |-> <<>>]
  /\ toBg = [t \in Tabs |-> <<>>]
  /\ agent = [t \in Tabs |-> AgentInit]
  /\ popup = PopupInit
  /\ hist = [emitted     |-> [s \in Sessions |-> <<>>],
             tokensSent  |-> [s \in Sessions |-> <<>>],
             cancelled   |-> [s \in Sessions |-> FALSE],
             recv        |-> [t \in Tabs |-> <<>>],
             phase       |-> [t \in Tabs |-> "none"],
             cancelsSent |-> [t \in Tabs |-> 0],
             endsSeen    |-> [t \in Tabs |-> 0],
             stopped     |-> [t \in Tabs |-> FALSE],
             selected    |-> [t \in Tabs |-> "none"],
             burst       |-> [t \in Tabs |-> 0],
             positioned  |-> [t \in Tabs |-> [rect |-> NoRect, innerWidth |-> 0]],
             refreshFailed |-> [c \in Calls |-> FALSE],
             cacheSet    |-> {}]

\* Spec: the streaming protocol between the coordinator and the agent of the
\* active tab.  The user has selected the text "x" in the page and leaves the
\* selection alone while rewrites run; frame callbacks of the token flush
\* are left to SpecAgent.
SelectedPage == [docSel |-> <<"x">>, fieldSel |-> <<>>]

Init ==
  /\ InitCommon
  /\ page = [t \in Tabs |-> IF t \in ActiveTabs THEN SelectedPage ELSE PageInit]

Next ==
  \/ \E s \in Sessions : SettingsResolved(s) /\ Room
  \/ \E s \in Sessions : CreateResolved(s)
  \/ \E s \in Sessions : CreateRejected(s) /\ Room
  \/ \E s \in Sessions : StreamChunk(s) /\ Room
  \/ \E s \in Sessions : StreamCompleted(s) /\ Room
  \/ \E s \in Sessions : StreamThrew(s) /\ Room
  \/ \E t \in ActiveTabs : BgReceive(t) /\ Room
  \/ \E t \in ActiveTabs : MenuClicked(t) /\ Room
  \/ \E t \in ActiveTabs : MenuResumed(t) /\ Room
  \/ \E t \in ActiveTabs : AgentReceive(t)
  \/ \E t \in ActiveTabs : QueryRejected(t)
  \/ \E t \in ActiveTabs : ClickStop(t)
  \/ \E t \in ActiveTabs : PressEscape(t)
  \/ \E t \in ActiveTabs : ClickOverlay(t)
  \/ \E t \in ActiveTabs : ClickClose(t)
  \/ \E t \in ActiveTabs : ClickSelectionButton(t)
  \/ \E t \in ActiveTabs : SelectionFrame(t)

Spec == Init /\ [][Next]_vars

\* SpecAgent: the content script of the active tab against an arbitrary
\* coordinator: any message may arrive at any time, frame callbacks run at
\* any time, and the user may stop, dismiss and close.
AgentMessages ==
  {TabMsg(type, <<>>, NoSession, FALSE) : type \in {"STREAM_START", "STREAM_END"}}
  \cup {TabMsg("STREAM_TOKEN", token, NoSession, FALSE) :
          token \in {<<>>, <<"a">>, <<"b">>}}
  \cup {TabMsg(type, error, NoSession, FALSE) :
          type \in {"STREAM_ERROR", "SHOW_ERROR"}, error \in ErrorTexts}

QueuedTokens(t) ==
  Len(SelectSeq(toTab[t], LAMBDA m : m.type = "STREAM_TOKEN"))

\* the coordinator sends one of `messages` to the tab
MessageSentOf(t, messages) ==
  /\ Len(toTab[t]) < MaxInFlight
  /\ \E m \in messages :
       /\ m.type = "STREAM_TOKEN" =>
            /\ Len(agent[t].streamContent) + Len(agent[t].pendingTokens)
                 + QueuedTokens(t) < MaxTokens
            /\ Cardinality(agent[t].rafPending) + QueuedTokens(t) < MaxFrames
       /\ toTab' = [toTab EXCEPT ![t] = Append(@, m)]
  /\ UNCHANGED <<coordinatorVars, menu, toBg, agent, page, popup, hist>>

MessageSent(t) == MessageSentOf(t, AgentMessages)

\* the coordinator takes the next runtime message of the tab
MessageTaken(t) ==
  /\ toBg[t] # <<>>
  /\ toBg' = [toBg EXCEPT ![t] = Tail(@)]
  /\ UNCHANGED <<coordinatorVars, menu, toTab, agent, page, popup, hist>>

InitAgent ==
  /\ InitCommon
  /\ page = [t \in Tabs |-> PageInit]

NextAgent ==
  \/ \E t \in ActiveTabs : MessageSent(t)
  \/ \E t \in ActiveTabs : MessageTaken(t)
  \/ \E t \in ActiveTabs : AgentReceive(t)
  \/ \E t \in ActiveTabs : FlushFrame(t)
  \/ \E t \in ActiveTabs : ClickStop(t)
  \/ \E t \in ActiveTabs : PressEscape(t)
  \/ \E t \in ActiveTabs : ClickOverlay(t)
  \/ \E t \in ActiveTabs : ClickClose(t)

SpecAgent == InitAgent /\ [][NextAgent]_vars

\* FairSpec: rewrites asked for through the context menu, where the
\* coordinator and the agent keep handling the messages they are given.
\* Nothing is assumed of the provider: a request may stay unresolved forever.
NextMenu ==
  \/ \E s \in Sessions : SettingsResolved(s) /\ Room
  \/ \E s \in Sessions : CreateResolved(s)
  \/ \E s \in Sessions : CreateRejected(s) /\ Room
  \/ \E s \in Sessions : StreamChunk(s) /\ Room
  \/ \E s \in Sessions : StreamCompleted(s) /\ Room
  \/ \E s \in Sessions : StreamThrew(s) /\ Room
  \/ \E t \in ActiveTabs : BgReceive(t) /\ Room
  \/ \E t \in ActiveTabs : MenuClicked(t) /\ Room
  \/ \E t \in ActiveTabs : MenuResumed(t) /\ Room
  \/ \E t \in ActiveTabs : AgentReceive(t)
  \/ \E t \in ActiveTabs : QueryRejected(t)
  \/ \E t \in ActiveTabs : ClickStop(t)
  \/ \E t \in ActiveTabs : PressEscape(t)
  \/ \E t \in ActiveTabs : ClickOverlay(t)
  \/ \E t \in ActiveTabs : ClickClose(t)

FairSpec ==
  /\ Init
  /\ [][NextMenu]_vars
  /\ \A t \in ActiveTabs : WF_vars(BgReceive(t) /\ Room)
  /\ \A t \in ActiveTabs : WF_vars(AgentReceive(t))

\* SpecTabs: two tabs with a content script each, served by the one
\* background script and its AIService singleton.  Rewrites are asked for
\* through the context menu and stopped with the Stop control.
InitTabs ==
  /\ InitCommon
  /\ page = [t \in Tabs |-> SelectedPage]

NextTabs ==
  \/ \E s \in Sessions : SettingsResolved(s) /\ Room
  \/ \E s \in Sessions : CreateResolved(s)
  \/ \E s \in Sessions : CreateRejected(s) /\ Room
  \/ \E s \in Sessions : StreamChunk(s) /\ Room
  \/ \E s \in Sessions : StreamCompleted(s) /\ Room
  \/ \E s \in Sessions : StreamThrew(s) /\ Room
  \/ \E t \in Tabs : BgReceive(t) /\ Room
  \/ \E t \in Tabs : MenuClicked(t) /\ Room
  \/ \E t \in Tabs : MenuResumed(t) /\ Room
  \/ \E t \in Tabs : AgentReceive(t)
  \/ \E t \in Tabs : QueryRejected(t)
  \/ \E t \in Tabs : ClickStop(t)

SpecTabs == InitTabs /\ [][NextTabs]_vars

\* SpecSelection: the selection button and the card of the content script.
\* The user selects text, presses and clicks the button, scrolls, dismisses
\* the card; the coordinator sends messages that open, end or replace the
\* card.
CardMessages ==
  {TabMsg(type, <<>>, NoSession, FALSE) : type \in {"STREAM_START", "STREAM_END"}}
  \cup {TabMsg("STREAM_ERROR", <<"e">>, NoSession, FALSE),
        TabMsg("REWRITE_TEXT", <<"x">>, NoSession, FALSE)}

\* the content script handles its messages one at a time, so a queue of one
\* message gives it every sequence of messages
CardMessageSent(t) == toTab[t] = <<>> /\ MessageSentOf(t, CardMessages)

NextSelection ==
  \/ \E t \in ActiveTabs : SelectionChanged(t)
  \/ \E t \in ActiveTabs : SelectionFrame(t)
  \/ \E t \in ActiveTabs : ScrollOrResize(t)
  \/ \E t \in ActiveTabs : PointerDown(t)
  \/ \E t \in ActiveTabs : PointerCancel(t)
  \/ \E t \in ActiveTabs : ClickSelectionButton(t)
  \/ \E t \in ActiveTabs : CardMessageSent(t)
  \/ \E t \in ActiveTabs : MessageTaken(t)
  \/ \E t \in ActiveTabs : AgentReceive(t)
  \/ \E t \in ActiveTabs : ClickStop(t)
  \/ \E t \in ActiveTabs : PressEscape(t)
  \/ \E t \in ActiveTabs : ClickOverlay(t)
  \/ \E t \in ActiveTabs : ClickClose(t)
  \/ \E t \in ActiveTabs : ToastTimeout(t)

SpecSelection == InitAgent /\ [][NextSelection]_vars

\* SpecCopy: the card, fed by streams and by REWRITE_TEXT, and its Copy button
CopyMessages ==
  {TabMsg(type, <<>>, NoSession, FALSE) : type \in {"STREAM_START", "STREAM_END"}}
  \cup {TabMsg("STREAM_TOKEN", token, NoSession, FALSE) :
          token \in {<<"a">>, <<"b">>}}
  \cup {TabMsg("REWRITE_TEXT", <<"x">>, NoSession, FALSE)}

CopyMessageSent(t) == toTab[t] = <<>> /\ MessageSentOf(t, CopyMessages)

NextCopy ==
  \/ \E t \in ActiveTabs : CopyMessageSent(t)
  \/ \E t \in ActiveTabs : AgentReceive(t)
  \/ \E t \in ActiveTabs : FlushFrame(t)
  \/ \E t \in ActiveTabs : ClickCopy(t)
  \/ \E t \in ActiveTabs : ClickClose(t)
  \/ \E t \in ActiveTabs : ToastTimeout(t)

SpecCopy == InitAgent /\ [][NextCopy]_vars

\* SpecLastSelection: selections of several texts, the selection button, the
\* card, and the coordinator asking for the last selection
WideTexts == Texts \cup {<<" ", "y">>}

WidePageStates ==
  {[docSel |-> d, fieldSel |-> <<>>] : d \in WideTexts}
  \cup {[docSel |-> <<>>, fieldSel |-> f] : f \in WideTexts}

WideSelectionChanged(t) == SelectionChangedTo(t, WidePageStates)

LastSelectionMessages ==
  {TabMsg(type, <<>>, NoSession, FALSE) :
     type \in {"STREAM_START", "STREAM_END", "GET_LAST_SELECTION"}}

LastSelectionMessageSent(t) ==
  toTab[t] = <<>> /\ MessageSentOf(t, LastSelectionMessages)

NextLastSelection ==
  \/ \E t \in ActiveTabs : WideSelectionChanged(t)
  \/ \E t \in ActiveTabs : SelectionFrame(t)
  \/ \E t \in ActiveTabs : ScrollOrResize(t)
  \/ \E t \in ActiveTabs : PointerDown(t)
  \/ \E t \in ActiveTabs : PointerCancel(t)
  \/ \E t \in ActiveTabs : ClickSelectionButton(t)
  \/ \E t \in ActiveTabs : LastSelectionMessageSent(t)
  \/ \E t \in ActiveTabs : MessageTaken(t)
  \/ \E t \in ActiveTabs : AgentReceive(t)
  \/ \E t \in ActiveTabs : ClickClose(t)

SpecLastSelection == InitAgent /\ [][NextLastSelection]_vars

\* SpecSchedule: selection events, the recomputation they schedule, and the
\* selection button.  hist.burst counts the selection events handled since
\* the last scheduled recomputation ran.
NextSchedule ==
  \/ \E t \in ActiveTabs : SelectionChanged(t)
  \/ \E t \in ActiveTabs : SelectionEvent(t)
  \/ \E t \in ActiveTabs : ScheduledSelectionFrame(t)
  \/ \E t \in ActiveTabs : ScrollOrResize(t)
  \/ \E t \in ActiveTabs : PointerDown(t)
  \/ \E t \in ActiveTabs : PointerCancel(t)
  \/ \E t \in ActiveTabs : ClickSelectionButton(t)
  \/ \E t \in ActiveTabs : MessageTaken(t)

SpecSchedule == InitAgent /\ [][NextSchedule]_vars

\* SpecPosition: the placement of the selection button.  hist.positioned is
\* the rectangle and the viewport width of the last placement.
NextPosition ==
  \/ \E t \in ActiveTabs : SelectionChanged(t)
  \/ \E t \in ActiveTabs : PositionedSelectionFrame(t)
  \/ \E t \in ActiveTabs : ScrollOrResize(t)

SpecPosition == InitAgent /\ [][NextPosition]_vars

\* SpecMenuOrder: context-menu clicks in a page whose selection changes; the
\* sessions they start are left waiting for their settings.
NextMenuOrder ==
  \/ \E t \in ActiveTabs : WideSelectionChanged(t)
  \/ \E t \in ActiveTabs : SelectionFrame(t)
  \/ \E t \in ActiveTabs : MenuClicked(t) /\ Room
  \/ \E t \in ActiveTabs : MenuResumed(t) /\ Room
  \/ \E t \in ActiveTabs : AgentReceive(t)
  \/ \E t \in ActiveTabs : QueryRejected(t)

SpecMenuOrder == InitAgent /\ [][NextMenuOrder]_vars

\* SpecPopup: the popup fetching model lists, up to MaxCalls calls of
\* fetchAndPopulateModels at a time.  hist.refreshFailed tells whether the
\* fetch of a call failed, hist.cacheSet the providers for which a
\* setModelCache has completed.
NextPopup ==
  \/ \E c \in Calls : ModelsRequested(c)
  \/ \E c \in Calls : GetModelCacheResolved(c)
  \/ \E c \in Calls : FetchModelsResolved(c)
  \/ \E c \in Calls : SetModelCacheRead(c)
  \/ \E c \in Calls : SetModelCacheWritten(c)
  \/ TimePassed

SpecPopup == InitAgent /\ [][NextPopup]_vars

\* ============================================================ properties
\* the messages a step appends to the queue of tab t
Appended(t) ==
  IF Len(toTab'[t]) > Len(toTab[t])
  THEN SubSeq(toTab'[t], Len(toTab[t]) + 1, Len(toTab'[t]))
  ELSE <<>>

\* the coordinator handles a STREAM_CANCEL of tab t in this step
CancelHandled(t) ==
  /\ toBg[t] # <<>>
  /\ Head(toBg[t]).type = "STREAM_CANCEL"
  /\ toBg'[t] = Tail(toBg[t])

CancelPending(t) ==
  \E i \in DOMAIN toBg[t] : toBg[t][i].type = "STREAM_CANCEL"

SessionsStarted == nextSession - 1

IsTerminal(m) == m.type \in {"STREAM_END", "STREAM_ERROR"}

\* the terminal events of session s, sent while it was not cancelled, in msgs
Terminals(msgs, s) ==
  Len(SelectSeq(msgs, LAMBDA m : IsTerminal(m) /\ m.sess = s /\ ~m.stale))

\* the content script of tab t handles a message of one of `types` in this step
Handled(t, types) ==
  /\ toTab[t] # <<>>
  /\ Head(toTab[t]).type \in types
  /\ toTab'[t] = Tail(toTab[t])

\* C1: while a tab has a session that streams (an activeStreams entry that
\* is not cancelled), no step starts another session for that tab: a further
\* request is rejected.
C1_SecondRequestRejected ==
  [][\A t \in Tabs :
       activeStreams[t] = "live" =>
         ~(nextSession' = nextSession + 1 /\ run'[nextSession].tab = t)]_vars

\* C2: once STREAM_END has closed a sequence STREAM_START, STREAM_TOKEN*,
\* the rendered text and the text Copy writes are the concatenation of the
\* received tokens and nothing is left in the pending buffer, whenever the
\* frame callbacks ran.
C2_RenderedTextIsConcatenation ==
  \A t \in Tabs :
    hist.phase[t] = "closed" =>
      /\ agent[t].contentText = hist.recv[t]
      /\ agent[t].rewrittenText = hist.recv[t]
      /\ agent[t].pendingTokens = <<>>

\* a stream of MaxTokens tokens was closed while a frame callback was
\* still waiting
C2_Witness ==
  \E t \in Tabs :
    /\ hist.phase[t] = "closed"
    /\ Len(hist.recv[t]) = MaxTokens
    /\ agent[t].contentText = hist.recv[t]
    /\ agent[t].rafPending # {}

\* C3: no STREAM_TOKEN is sent for a session after the coordinator has
\* handled a STREAM_CANCEL for it.
C3_NoTokenAfterCancel ==
  \A t \in Tabs : \A i \in DOMAIN toTab[t] :
    toTab[t][i].type = "STREAM_TOKEN" => ~toTab[t][i].stale

\* C4: no STREAM_ERROR is sent for a session after the coordinator has
\* handled a STREAM_CANCEL for it, so no error toast follows a cancel.
C4_NoErrorAfterCancel ==
  \A t \in Tabs : \A i \in DOMAIN toTab[t] :
    toTab[t][i].type = "STREAM_ERROR" => ~toTab[t][i].stale

\* C5: an agent that streams and has asked to cancel eventually stops
\* streaming, whatever the provider does.
C5_CancelEndsStreaming ==
  \A t \in ActiveTabs :
    (agent[t].isStreaming /\ CancelPending(t)) ~> ~agent[t].isStreaming

\* the agent has left Streaming after a cancel while the provider request of
\* the cancelled session is still unresolved
C5_Witness ==
  \E s \in Sessions :
    /\ InProgress(s)
    /\ hist.cancelled[s]
    /\ ~agent[run[s].tab].isStreaming
    /\ hist.endsSeen[run[s].tab] = 1

\* C6: when two cancels were requested during the one stream of a tab, the
\* agent has seen at most one STREAM_END for it.
C6_OneEndForTwoCancels ==
  \A t \in Tabs :
    (SessionsStarted = 1 /\ hist.cancelsSent[t] = MaxCancels)
      => hist.endsSeen[t] <= 1

\* C7: handling a STREAM_CANCEL for a tab without an activeStreams entry
\* changes nothing: no message is sent, activeStreams stays as it is and no
\* provider request is aborted.
C7_CancelWithoutSessionIsNoOp ==
  [][\A t \in Tabs :
       (CancelHandled(t) /\ activeStreams[t] = "absent") =>
         /\ toTab' = toTab
         /\ activeStreams' = activeStreams
         /\ abortController' = abortController
         /\ aborted' = aborted]_vars

\* C8: no STREAM_START is sent for a request whose text is empty after
\* trimming.
C8_NoStartForBlankText ==
  \A t \in Tabs : \A i \in DOMAIN toTab[t] :
    toTab[t][i].type = "STREAM_START" => Trim(toTab[t][i].token) # <<>>

\* C9: for a session that is not cancelled, the STREAM_TOKEN messages sent
\* are the provider's tokens, one each and in order; in a tab's queue no
\* token of a session precedes its STREAM_START or follows its terminal
\* event.
C9_TokensForwardedInOrder ==
  /\ \A s \in Sessions :
       (InProgress(s) /\ ~hist.cancelled[s])
         => hist.tokensSent[s] = hist.emitted[s]
  /\ \A t \in Tabs : \A i, j \in DOMAIN toTab[t] :
       (i < j /\ toTab[t][i].sess = toTab[t][j].sess
              /\ toTab[t][i].sess # NoSession)
         => /\ toTab[t][j].type # "STREAM_START"
            /\ ~IsTerminal(toTab[t][i])

\* a session that was never cancelled has forwarded MaxTokens tokens
C9_Witness ==
  \E s \in Sessions :
    /\ InProgress(s)
    /\ ~hist.cancelled[s]
    /\ Len(hist.tokensSent[s]) = MaxTokens
    /\ hist.tokensSent[s] = hist.emitted[s]

\* C10: for a session that is not cancelled, at most one terminal event
\* (STREAM_END or STREAM_ERROR) is sent: only by the step in which
\* runRewrite returns, and only one by that step.
C10_AtMostOneTerminal ==
  [][\A t \in Tabs : \A s \in Sessions :
       /\ Terminals(Appended(t), s) <= 1
       /\ Terminals(Appended(t), s) = 1 =>
            (InProgress(s) /\ run'[s].pc = "returned")]_vars

\* a stream that had forwarded a token threw: the session has returned and
\* its single STREAM_ERROR, sent by onError, follows the token in the queue
C10_Witness ==
  \E t \in Tabs : \E s \in Sessions :
    /\ run[s].pc = "returned"
    /\ Terminals(toTab[t], s) = 1
    /\ \E i, j \in DOMAIN toTab[t] :
         /\ i < j
         /\ toTab[t][i].type = "STREAM_TOKEN" /\ toTab[t][i].sess = s
         /\ toTab[t][j].type = "STREAM_ERROR" /\ toTab[t][j].sess = s

\* C11: when the rewriteText call of a session that is not cancelled
\* settles, a terminal event of the session (STREAM_END or STREAM_ERROR) is
\* sent to its tab.
C11_TerminalOnSettle ==
  [][\A s \in Sessions :
       (InProgress(s) /\ ~hist.cancelled[s] /\ run'[s].pc = "returned")
         => \E i \in DOMAIN Appended(run[s].tab) :
              /\ IsTerminal(Appended(run[s].tab)[i])
              /\ Appended(run[s].tab)[i].sess = s]_vars

\* C12: handling a STREAM_CANCEL of one tab leaves every other tab alone:
\* no provider request of a session of another tab is aborted, the
\* activeStreams entry of another tab is not changed and nothing is sent to
\* another tab.
C12_CancelTouchesOwnTabOnly ==
  [][\A t \in Tabs : CancelHandled(t) =>
       /\ \A u \in Tabs \ {t} :
            /\ activeStreams'[u] = activeStreams[u]
            /\ toTab'[u] = toTab[u]
       /\ \A s \in Sessions :
            (InProgress(s) /\ run[s].tab # t) => aborted'[s] = aborted[s]]_vars

\* C13: once a session of the tab has been cancelled and a later session
\* has been started, the callbacks of the cancelled session send no
\* STREAM_TOKEN and no STREAM_END to the tab.  (In Spec every session
\* belongs to the active tab.)
C13_NoEventOfSupersededSession ==
  [][\A t \in Tabs : \A i \in DOMAIN Appended(t) :
       (/\ Appended(t)[i].sess # NoSession
        /\ Appended(t)[i].stale
        /\ Appended(t)[i].sess < SessionsStarted)
         => Appended(t)[i].type \notin {"STREAM_TOKEN", "STREAM_END"}]_vars

\* C14: the selection button and the card are never visible together.
C14_ButtonHiddenWhileCardVisible ==
  \A t \in Tabs : agent[t].cardVisible => ~agent[t].selectionButtonVisible

\* the card is open over a page that holds a selection the button had been
\* offered for
C14_Witness ==
  \E t \in Tabs :
    /\ agent[t].cardVisible
    /\ ~agent[t].selectionButtonVisible
    /\ getSelectedText(page[t]) # <<>>
    /\ agent[t].lastSelectionText = getSelectedText(page[t])

\* C15: while the agent streams, the card is visible, the Stop control is
\* visible and the Copy and Close controls are disabled.
C15_StreamingControls ==
  \A t \in Tabs :
    agent[t].isStreaming =>
      /\ agent[t].cardVisible
      /\ agent[t].stopVisible
      /\ agent[t].copyDisabled
      /\ agent[t].closeDisabled

\* the agent streams, a cancel has been asked for and the card is still up
C15_Witness ==
  \E t \in Tabs :
    /\ agent[t].isStreaming
    /\ agent[t].stopDisabled
    /\ agent[t].cardVisible
    /\ agent[t].closeDisabled
    /\ CancelPending(t)

\* C16: handling STREAM_END while streaming flushes the buffered tokens,
\* removes the cursor, enables Copy and Close, hides Stop and leaves the card
\* open; afterwards the card is closed only by a dismiss gesture (Close,
\* Escape, overlay click) or by an error message.
C16_EndKeepsCardOpen ==
  [][\A t \in Tabs :
       /\ (agent[t].isStreaming /\ Handled(t, {"STREAM_END"})) =>
            /\ ~agent'[t].isStreaming
            /\ agent'[t].pendingTokens = <<>>
            /\ agent'[t].streamContent =
                 agent[t].streamContent \o agent[t].pendingTokens
            /\ agent'[t].contentText = agent'[t].streamContent
            /\ ~agent'[t].cursorShown
            /\ ~agent'[t].copyDisabled
            /\ ~agent'[t].closeDisabled
            /\ ~agent'[t].stopVisible
            /\ agent'[t].cardVisible
       /\ (~agent[t].isStreaming /\ agent[t].cardVisible
             /\ ~agent'[t].cardVisible) =>
            \/ Handled(t, {"STREAM_ERROR", "SHOW_ERROR"})
            \/ agent'[t] = [agent[t] EXCEPT !.cardVisible = FALSE]]_vars

\* a stream with text has ended and its card is open for review
C16_Witness ==
  \E t \in Tabs :
    /\ hist.phase[t] = "closed"
    /\ hist.recv[t] # <<>>
    /\ ~agent[t].isStreaming
    /\ agent[t].cardVisible
    /\ ~agent[t].stopVisible
    /\ ~agent[t].copyDisabled
    /\ ~agent[t].cursorShown

\* C17: every STREAM_ERROR or SHOW_ERROR the content script handles, in any
\* state, flushes the buffer, shows the error toast, closes the card and the
\* overlay and leaves the agent idle (not streaming, Stop hidden).
C17_ErrorAlwaysEndsIdle ==
  [][\A t \in Tabs :
       Handled(t, {"STREAM_ERROR", "SHOW_ERROR"}) =>
         /\ ~agent'[t].isStreaming
         /\ ~agent'[t].cardVisible
         /\ ~agent'[t].stopVisible
         /\ agent'[t].pendingTokens = <<>>
         /\ agent'[t].toast = "error"]_vars

Cancelling(t) ==
  /\ agent[t].isStreaming
  /\ agent[t].stopDisabled
  /\ agent[t].cardVisible

\* the text received for the current stream, rendered or still buffered
Partial(a) == a.streamContent \o a.pendingTokens

IsPrefix(s1, s2) ==
  /\ Len(s1) <= Len(s2)
  /\ SubSeq(s2, 1, Len(s1)) = s1

\* a step of tab t that keeps the cancelling state and the partial content,
\* unless it handles a message of one of `exits` (an error only with a text)
StaysCancelling(t, exits) ==
  /\ ClickStop(t) => (agent'[t].stopDisabled /\ agent'[t].cardVisible)
  /\ Cancelling(t) =>
       \/ /\ agent'[t].isStreaming
          /\ agent'[t].stopDisabled
          /\ agent'[t].cardVisible
          /\ IsPrefix(Partial(agent[t]), Partial(agent'[t]))
          /\ IsPrefix(agent[t].contentText, agent'[t].contentText)
       \/ /\ Handled(t, exits)
          /\ Head(toTab[t]).type \in {"STREAM_ERROR", "SHOW_ERROR"}
               => Head(toTab[t]).token # <<>>
  /\ (agent[t].stopDisabled /\ agent'[t].stopVisible
        /\ ~agent'[t].stopDisabled) => Handled(t, {"STREAM_START"})

C20_StoppedStreamKeepsPartialText ==
  [][\A t \in Tabs :
       /\ (hist.stopped[t] /\ agent[t].isStreaming
             /\ Handled(t, {"STREAM_END"})) =>
            /\ Partial(agent[t]) = hist.recv[t]
            /\ agent'[t].contentText = Partial(agent[t])
            /\ agent'[t].rewrittenText = Partial(agent[t])
            /\ hist'.stopped[t] /\ hist'.phase[t] = "closed"
       /\ (hist'.stopped[t] /\ hist'.phase[t] = "closed") =>
            /\ ~agent'[t].isStreaming
            /\ ~agent'[t].stopVisible
            /\ agent'[t].cardVisible
            /\ agent'[t].contentText = hist'.recv[t]
            /\ agent'[t].rewrittenText = hist'.recv[t]
            /\ agent'[t].pendingTokens = <<>>
            /\ ~agent'[t].copyDisabled
       /\ ((~agent[t].isStreaming /\ agent'[t].isStreaming)
             \/ (~agent[t].stopVisible /\ agent'[t].stopVisible)) =>
            Handled(t, {"STREAM_START"})]_vars

\* a stopped stream has ended with its text on the open card, the last token
\* flushed by STREAM_END while its frame callback was still waiting
C20_Witness ==
  \E t \in Tabs :
    /\ hist.stopped[t]
    /\ hist.phase[t] = "closed"
    /\ hist.recv[t] # <<>>
    /\ agent[t].cardVisible
    /\ agent[t].rewrittenText = hist.recv[t]
    /\ ~agent[t].copyDisabled
    /\ ~agent[t].stopVisible
    /\ agent[t].rafPending # {}

\* C21: a STREAM_TOKEN handled while the agent is not streaming changes
\* nothing of the agent (buffer, accumulated and rendered text, card, scheduled
\* flush), and a flush frame callback that runs while the agent is not
\* streaming changes nothing but the set of callbacks still waiting.
C21_TokenDroppedWhenNotStreaming ==
  [][\A t \in Tabs :
       /\ (~agent[t].isStreaming /\ Handled(t, {"STREAM_TOKEN"})) =>
            agent'[t] = agent[t]
       /\ (~agent[t].isStreaming /\ FlushFrame(t)) =>
            agent'[t] = [agent[t] EXCEPT !.rafPending = agent'[t].rafPending]]_vars

\* a token with text is about to be handled by an agent whose stream has
\* ended, while a frame callback of that stream is still waiting
C21_Witness ==
  \E t \in Tabs :
    /\ ~agent[t].isStreaming
    /\ hist.phase[t] = "closed"
    /\ agent[t].rafPending # {}
    /\ toTab[t] # <<>>
    /\ Head(toTab[t]).type = "STREAM_TOKEN"
    /\ Head(toTab[t]).token # <<>>

\* C22: Copy writes exactly rewrittenText to the clipboard, which is the
\* text of the flushed tokens of the stream or the text REWRITE_TEXT put on
\* the card; written or not, the click changes only the toast (and the
\* clipboard when written) and sends nothing.
C22_CopyWritesRewrittenText ==
  [][\A t \in Tabs :
       ClickCopy(t) =>
         /\ agent'[t] = [agent[t] EXCEPT !.toast = agent'[t].toast,
                                         !.clipboard = agent'[t].clipboard]
         /\ toBg'[t] = toBg[t]
         /\ \/ /\ agent'[t].toast = "info"
               /\ agent'[t].clipboard = agent[t].rewrittenText
            \/ /\ agent'[t].toast = "error"
               /\ agent'[t].clipboard = agent[t].clipboard
         /\ \/ agent[t].rewrittenText = agent[t].streamContent
            \/ /\ agent[t].rewrittenText = <<"x">>
               /\ agent[t].contentText = <<"x">>]_vars

\* the text of a stream of MaxTokens tokens was copied from the open card
C22_Witness ==
  \E t \in Tabs :
    /\ agent[t].toast = "info"
    /\ Len(agent[t].clipboard) = MaxTokens
    /\ agent[t].clipboard = hist.recv[t]
    /\ agent[t].cardVisible
    /\ ~agent[t].isStreaming

\* no stream is running and the card is closed
Idle(t) == ~agent[t].isStreaming /\ ~agent[t].cardVisible

\* the card is open on a finished text
Displaying(t) == ~agent[t].isStreaming /\ agent[t].cardVisible

\* C23: a REWRITE_TEXT with a text handled by an idle agent opens the card on
\* that text with the selection button and Stop hidden, Copy and Close
\* enabled and no stream running; closing the card (Close, Escape, overlay
\* click) then leaves the agent idle.
C23_RewriteTextDisplays ==
  [][\A t \in Tabs :
       /\ (Idle(t) /\ Handled(t, {"REWRITE_TEXT"})
             /\ Head(toTab[t]).token # <<>>) =>
            /\ agent'[t].cardVisible
            /\ agent'[t].contentText = Head(toTab[t]).token
            /\ agent'[t].rewrittenText = Head(toTab[t]).token
            /\ ~agent'[t].isStreaming
            /\ ~agent'[t].selectionButtonVisible
            /\ ~agent'[t].stopVisible
            /\ ~agent'[t].copyDisabled
            /\ ~agent'[t].closeDisabled
       /\ (Displaying(t)
             /\ (ClickClose(t) \/ PressEscape(t) \/ ClickOverlay(t))) =>
            /\ ~agent'[t].isStreaming
            /\ ~agent'[t].cardVisible
            /\ ~agent'[t].stopVisible]_vars

\* the card shows a REWRITE_TEXT text and no stream has started or ended
\* since the agent was idle
C23_Witness ==
  \E t \in Tabs :
    /\ Displaying(t)
    /\ agent[t].contentText = <<"x">>
    /\ agent[t].rewrittenText = <<"x">>
    /\ ~agent[t].stopVisible
    /\ ~agent[t].copyDisabled
    /\ hist.phase[t] = "none"
    /\ hist.endsSeen[t] = 0

\* C24: the remembered selection text changes only when a selection
\* recomputation captures a non-empty (trimmed) text, and is never reset to
\* empty by a cleared selection, a scroll, the button, the card or a stream;
\* GET_LAST_SELECTION is answered with the remembered text whenever one was
\* captured.
C24_LastSelectionRemembered ==
  [][\A t \in Tabs :
       /\ agent[t].lastSelectionText # <<>> =>
            agent'[t].lastSelectionText # <<>>
       /\ agent'[t].lastSelectionText # agent[t].lastSelectionText =>
            /\ SelectionFrame(t)
            /\ agent'[t].lastSelectionText = Trim(getSelectedText(page[t]))
       /\ (Handled(t, {"GET_LAST_SELECTION"})
             /\ agent[t].lastSelectionText # <<>>) =>
            /\ menu'[t].pc = "gotLast"
            /\ menu'[t].reply = agent[t].lastSelectionText]_vars

\* the last selection was asked for after the selection was cleared, and the
\* answer is the text captured before
C24_Witness ==
  \E t \in Tabs :
    /\ page[t] = PageInit
    /\ menu[t].pc = "gotLast"
    /\ menu[t].reply = <<"y">>
    /\ agent[t].lastSelectionText = <<"y">>
    /\ ~agent[t].selectionButtonVisible

\* C25: a selection recomputation that is not suppressed (no stream, button
\* not pressed) and resolves an empty or whitespace-only text, from the
\* document or from an input/textarea, leaves the selection button hidden.
C25_NoButtonForBlankSelection ==
  [][\A t \in Tabs :
       (SelectionFrame(t) /\ ~agent[t].isStreaming
          /\ ~agent[t].isSelectionButtonPressed
          /\ Trim(getSelectedText(page[t])) = <<>>) =>
         ~agent'[t].selectionButtonVisible]_vars

\* C26: the selection button is made visible only by a selection
\* recomputation that finds a selection of non-zero length: selecting and
\* deselecting change nothing of the agent, and the recomputation that runs
\* after the selection was cleared again does not show the button.
C26_NoButtonForClearedSelection ==
  [][\A t \in Tabs :
       /\ page'[t] # page[t] => agent'[t] = agent[t]
       /\ (~agent[t].selectionButtonVisible
             /\ agent'[t].selectionButtonVisible) =>
            /\ SelectionFrame(t)
            /\ page[t] # PageInit
       /\ (hist'.selected[t] = "cleared" /\ ~agent[t].selectionButtonVisible) =>
            ~agent'[t].selectionButtonVisible]_vars

\* text was selected and deselected before the recomputation ran, which left
\* the button hidden
C26_Witness ==
  \E t \in Tabs :
    /\ hist.selected[t] = "cleared"
    /\ page[t] = PageInit
    /\ ~agent[t].selectionButtonVisible
    /\ agent[t].lastSelectionText = <<>>
    /\ Idle(t)

\* C27: while the selection button is pressed (after pointerdown, before
\* click or pointercancel) a selection recomputation changes nothing of the
\* agent, whatever the selection is then; the click that follows sends the
\* text captured at pointerdown.
C27_PressSuppressesRecomputation ==
  [][\A t \in Tabs :
       /\ (agent[t].isSelectionButtonPressed /\ SelectionFrame(t)) =>
            agent'[t] = agent[t]
       /\ (agent[t].isSelectionButtonPressed
             /\ agent[t].pendingSelectionText # <<>>
             /\ ClickSelectionButton(t)) =>
            toBg'[t] = Append(toBg[t],
                         BgMsg("REWRITE_SELECTED_TEXT",
                               agent[t].pendingSelectionText))]_vars

\* the button is pressed on a captured text, the selection was changed and
\* cleared afterwards, and the recomputation that saw it cleared has run
C27_Witness ==
  \E t \in Tabs :
    /\ agent[t].isSelectionButtonPressed
    /\ agent[t].selectionButtonVisible
    /\ agent[t].pendingSelectionText = <<"x">>
    /\ agent[t].selectionText = <<"x">>
    /\ page[t] = PageInit
    /\ hist.selected[t] = "cleared"

\* the text a click on the selection button asks to rewrite
ClickText(t) ==
  IF Trim(agent[t].pendingSelectionText) # <<>>
  THEN Trim(agent[t].pendingSelectionText)
  ELSE IF Trim(getSelectedText(page[t])) # <<>>
  THEN Trim(getSelectedText(page[t]))
  ELSE Trim(agent[t].selectionText)

\* C28: a click on the selection button while no stream runs sends exactly
\* one REWRITE_SELECTED_TEXT with the first non-empty of the trimmed pending
\* text, the trimmed current selection and the trimmed selectionText, or
\* nothing when all three are empty; in the same step the button is hidden
\* and the pending text and the pressed flag are cleared.
C28_ClickSendsFirstNonEmptyText ==
  [][\A t \in Tabs :
       (~agent[t].isStreaming /\ agent[t].selectionButtonVisible
          /\ ClickSelectionButton(t)) =>
         /\ toBg'[t] = IF ClickText(t) # <<>>
                       THEN Append(toBg[t],
                                   BgMsg("REWRITE_SELECTED_TEXT", ClickText(t)))
                       ELSE toBg[t]
         /\ ~agent'[t].selectionButtonVisible
         /\ agent'[t].pendingSelectionText = <<>>
         /\ ~agent'[t].isSelectionButtonPressed
         /\ ~agent'[t].isStreaming]_vars

\* the text captured at pointerdown was sent although another text is
\* selected now, and the button is hidden
C28_Witness ==
  \E t \in Tabs :
    /\ toBg[t] = <<BgMsg("REWRITE_SELECTED_TEXT", <<"x">>)>>
    /\ Trim(getSelectedText(page[t])) = <<"y">>
    /\ agent[t].lastSelectionText = <<"x">>
    /\ ~agent[t].selectionButtonVisible
    /\ agent[t].pendingSelectionText = <<>>
    /\ ~agent[t].isSelectionButtonPressed

RECURSIVE Flatten(_)
Flatten(tokens) ==
  IF tokens = <<>> THEN <<>> ELSE Head(tokens) \o Flatten(Tail(tokens))

IsCurrent(s) ==
  /\ InProgress(s)
  /\ \A s2 \in Sessions :
       (s2 > s /\ InProgress(s2)) => run[s2].tab # run[s].tab

\* C30: once the coordinator has handled a STREAM_CANCEL of a tab, the
\* provider request of that tab's current session is aborted: whenever that
\* session has a request (created before or after the cancel arrived), its
\* signal is aborted.
C30_CancelAbortsOwnRequest ==
  \A s \in Sessions :
    (IsCurrent(s) /\ hist.cancelled[s] /\ run[s].pc \in {"create", "stream"})
      => aborted[s]

\* C31: activeStreams holds an entry for a tab as long as the most recently
\* started runRewrite of that tab has not returned; the return of an older
\* runRewrite does not remove it.
C31_EntryKeptForCurrentSession ==
  \A s \in Sessions :
    IsCurrent(s) => activeStreams[run[s].tab] # "absent"

\* C32: at most one token-flush frame callback is scheduled for the agent at
\* any time, also across the end of a stream and the start of the next.
C32_OneFlushCallbackScheduled ==
  \A t \in Tabs : Cardinality(agent[t].rafPending) <= 1

\* C33: exactly one selection recomputation is scheduled once a selection
\* event was handled since the last one ran, however many events there were,
\* and none otherwise; the one scheduled is the one of the latest event.
C33_OneRecomputationScheduled ==
  \A t \in Tabs :
    /\ Cardinality(agent[t].selectionRafPending) =
         (IF hist.burst[t] > 0 THEN 1 ELSE 0)
    /\ agent[t].selectionRafPending =
         (IF agent[t].selectionUpdateRaf = 0 THEN {}
          ELSE {agent[t].selectionUpdateRaf})

\* a burst of MaxBurst selection events has been handled and one callback is
\* scheduled
C33_Witness ==
  \E t \in Tabs :
    /\ hist.burst[t] = MaxBurst
    /\ Cardinality(agent[t].selectionRafPending) = 1

\* the button of tab t was placed, and the step that placed it is the last one
\* that ran positionSelectionButton
Placed(t) == hist.positioned[t].rect # NoRect

TopPlaced(t) ==
  LET rect == hist.positioned[t].rect
  IN  agent[t].selectionButtonStyle.top =
        (IF rect.top - 36 < 8 THEN rect.bottom + 8 ELSE rect.top - 36)

LeftClamped(t) ==
  LET left == agent[t].selectionButtonStyle.left
  IN  /\ 8 <= left
      /\ left + 28 <= hist.positioned[t].innerWidth - 8

\* C34 as stated: for every anchor rectangle and viewport width the button is
\* placed at top = rect.top - 36, or rect.bottom + 8 when that is below 8,
\* and its left is clamped: 8 <= left and left + 28 <= innerWidth - 8.
C34_PlacementClamped ==
  \A t \in Tabs : Placed(t) => TopPlaced(t) /\ LeftClamped(t)

\* C34, amended: the same for every anchor rectangle and every viewport
\* width of at least 44; the top is as stated for every viewport width.
C34_PlacementClampedInWideViewport ==
  \A t \in Tabs :
    Placed(t) =>
      /\ TopPlaced(t)
      /\ hist.positioned[t].innerWidth >= 44 => LeftClamped(t)

\* a button placed against the right edge of a viewport at least 44 wide,
\* below its rectangle
C34_Witness ==
  \E t \in Tabs :
    /\ Placed(t)
    /\ hist.positioned[t].innerWidth >= 44
    /\ agent[t].selectionButtonStyle.left = hist.positioned[t].innerWidth - 36
    /\ hist.positioned[t].rect.left + hist.positioned[t].rect.width - 28
         > agent[t].selectionButtonStyle.left
    /\ agent[t].selectionButtonStyle.top = hist.positioned[t].rect.bottom + 8

\* the step starts a session for tab t with the text `text`
StartsSessionWith(t, text) ==
  /\ nextSession' = nextSession + 1
  /\ activeStreams'[t] = "live"
  /\ Appended(t) = <<TabMsg("STREAM_START", text, nextSession, FALSE)>>

\* the step sends the query `type` to tab t and starts no session
AsksOnly(t, type) ==
  /\ nextSession' = nextSession
  /\ Appended(t) = <<TabMsg(type, <<>>, NoSession, FALSE)>>

\* the context-menu handler of tab t takes its sources in order, a reply
\* counting as the text Read(reply): a click uses info.selectionText or
\* asks GET_SELECTED_TEXT; with that reply it starts the session or asks
\* GET_LAST_SELECTION; with that reply it starts the session or gives up
SourcesInOrder(t, Read(_)) ==
  /\ (menu[t].pc = "idle" /\ MenuClicked(t)) =>
        \/ \E info \in Texts \ {<<>>} :
             StartsSessionWith(t, info) /\ menu'[t].pc = "idle"
        \/ AsksOnly(t, "GET_SELECTED_TEXT")
  /\ (menu[t].pc = "gotSelected" /\ menu'[t] # menu[t]) =>
        IF Read(menu[t].reply) # <<>>
        THEN StartsSessionWith(t, Read(menu[t].reply)) /\ menu'[t].pc = "idle"
        ELSE AsksOnly(t, "GET_LAST_SELECTION")
  /\ (menu[t].pc = "gotLast" /\ menu'[t] # menu[t]) =>
        IF Read(menu[t].reply) # <<>>
        THEN StartsSessionWith(t, Read(menu[t].reply)) /\ menu'[t].pc = "idle"
        ELSE /\ nextSession' = nextSession
             /\ activeStreams'[t] = activeStreams[t]
             /\ Appended(t) = <<>>
             /\ menu'[t].pc = "idle"
  /\ \A i \in 1..Len(Appended(t)) :
        /\ Appended(t)[i].type = "GET_SELECTED_TEXT" => menu[t].pc = "idle"
        /\ Appended(t)[i].type = "GET_LAST_SELECTION" =>
             menu[t].pc = "gotSelected" /\ Read(menu[t].reply) = <<>>

AsReplied(reply) == reply

\* C35 as stated: on a context-menu click the text is info.selectionText,
\* else the GET_SELECTED_TEXT reply, else the GET_LAST_SELECTION reply; a
\* later source is asked only when every earlier one is empty (a rejected
\* query replies the empty text), and when all are empty no STREAM_START is
\* sent and no session is created.
C35_SourcesInOrder ==
  [][\A t \in Tabs : SourcesInOrder(t, AsReplied)]_vars

\* C35, amended: the same with each reply taken trimmed, so that a reply of
\* white space counts as empty.
C35_TrimmedSourcesInOrder ==
  [][\A t \in Tabs : SourcesInOrder(t, Trim)]_vars

\* a session was started with the text "y", which only the reply " y" of a
\* field selection gives
C35_Witness ==
  \E t \in Tabs : \E i \in 1..Len(toTab[t]) :
    /\ toTab[t][i].type = "STREAM_START"
    /\ toTab[t][i].token = <<"y">>
    /\ page[t].fieldSel = <<" ", "y">>

\* C36: a rewrite request announces itself with STREAM_START, and when
\* rewriteText finds no API key (the session returns from getSettings without
\* reaching the provider) the tab is sent exactly one STREAM_ERROR with the
\* missing-API-key message and nothing else, no token was emitted, no provider
\* request was made, and the tab's activeStreams entry is removed.
C36_MissingKeyReported ==
  [][\A s \in Sessions :
       /\ (run[s].pc = "unused" /\ run'[s].pc = "getSettings") =>
            \E text \in WideTexts :
              Appended(run'[s].tab) = <<TabMsg("STREAM_START", text, s, FALSE)>>
       /\ (run[s].pc = "getSettings" /\ run'[s].pc = "returned") =>
            /\ \E stale \in BOOLEAN :
                 Appended(run[s].tab) =
                   <<TabMsg("STREAM_ERROR", KeyMissing, s, stale)>>
            /\ hist.emitted[s] = <<>>
            /\ hist.tokensSent[s] = <<>>
            /\ run[s].provider = "none"
            /\ abortController' = abortController
            /\ activeStreams'[run[s].tab] = "absent"]_vars

\* the missing-API-key error is on its way to a tab whose entry is removed
C36_Witness ==
  \E t \in Tabs : \E i \in 1..Len(toTab[t]) :
    /\ toTab[t][i].type = "STREAM_ERROR"
    /\ toTab[t][i].token = KeyMissing
    /\ activeStreams[t] = "absent"

\* C37: when the fetch of a refresh failed and getModelCache had resolved to
\* an entry with models for that provider, no later step of the call changes
\* the stored entry of the provider, and when the call is over the model list
\* shows the cached models.
C37_CachedListKeptAfterFailedRefresh ==
  [][\A c \in Calls :
       LET call == popup.calls[c]
       IN  (/\ hist.refreshFailed[c]
            /\ call.cacheEntry.present
            /\ call.cacheEntry.models # <<>>
            /\ popup'.calls[c] # call) =>
             /\ popup'.modelCache[call.provider] = popup.modelCache[call.provider]
             /\ popup'.calls[c].pc = "idle" =>
                  popup'.modelList = call.cacheEntry.models]_vars

\* C38: the stored cache holds an entry for every provider for which a
\* setModelCache has completed, whatever the interleaving of the calls.
C38_NoCacheEntryLost ==
  \A p \in hist.cacheSet : popup.modelCache[p].present

====
